---- MODULE Spec2Model ----
(***************************************************************************)
(* State-machine model of StoryboardImageNode                              *)
(* (src/storyboard/storyboard_image_node.py).                              *)
(*                                                                         *)
(* An image is represented by its pixel size <<width, height>>; a colour   *)
(* string by the sequence of its characters.  The two collaborators the    *)
(* node calls into are modelled by their observable contract:              *)
(*   - Pillow: Image.resize rejects a requested size with a side < 1,      *)
(*     Image.new rejects a negative side, Image.paste clips silently;      *)
(*   - the host framework: get_parameter_value falls back to the declared  *)
(*     default, and the host resolves the node after process() returns.    *)
(* Python's float arithmetic int(a / (w / h)) and int(a * (w / h)) is      *)
(* modelled by exact truncating integer division.                          *)
(***************************************************************************)
EXTENDS Integers, Sequences, FiniteSets, TLC

VARIABLES
    parameter_values,         \* self.parameter_values: name -> value or NoValue
    parameter_output_values,  \* self.parameter_output_values: name -> value or None
    state,                    \* self.state (NodeResolutionState)
    last_call,                \* the handler that ran last and how it ended
    args,                     \* arguments the last handler passed to create_storyboard_grid
    storyboard                \* what create_storyboard_grid did in the last handler

vars == <<parameter_values, parameter_output_values, state, last_call, args, storyboard>>

\* Python values carry their type, as the code's isinstance tests need it.
PyNone == [type |-> "NoneType"]
PyInt(n) == [type |-> "int", int |-> n]
PyStr(chars) == [type |-> "str", str |-> chars]      \* a string as its characters
PyText(t) == [type |-> "str", text |-> t]            \* a string taken as a whole
PyList(items) == [type |-> "list", list |-> items]

NoValue == [type |-> "unset"]    \* no entry in parameter_values
NoCall == [kind |-> "NoCall"]    \* create_storyboard_grid was not called
NoArgs == [kind |-> "NoArgs"]

(***************************************************************************)
(* Bounds of the model.                                                    *)
(***************************************************************************)
MaxImages == 3      \* longest image list passed to create_storyboard_grid
MaxSide == 2        \* largest width/height of an input image
MaxColorLen == 9    \* longest background colour string

Min(S) == CHOOSE x \in S : \A y \in S : x <= y
Max2(a, b) == IF a >= b THEN a ELSE b

\* Python int(a / b) for b > 0: truncation toward zero.
IntDiv(a, b) == IF a >= 0 THEN a \div b ELSE -((-a) \div b)

\* All sequences over S of length 0..n.
SeqsUpTo(S, n) == UNION {[1..k -> S] : k \in 0..n}

(***************************************************************************)
(* Background colour parsing (lines 200-212).                              *)
(***************************************************************************)
HexDigits == {"0", "f"}
Chars == HexDigits \cup {"#", "g"}

HexVal(c) == CASE c = "0" -> 0 [] c = "f" -> 15

\* Python slice s[a:b] with 0 <= a <= b (0-based, end exclusive, clipped).
Slice(s, a, b) ==
    LET hi == IF b <= Len(s) THEN b ELSE Len(s)
    IN  IF a >= hi THEN <<>> ELSE SubSeq(s, a + 1, hi)

\* int(s, 16) on a slice of at most two characters drawn from Chars:
\* the result -1 stands for the ValueError int() raises.
Int16(s) ==
    IF Len(s) = 0 \/ \E i \in 1..Len(s) : s[i] \notin HexDigits
    THEN -1
    ELSE IF Len(s) = 1 THEN HexVal(s[1]) ELSE 16 * HexVal(s[1]) + HexVal(s[2])

Int16Fails(v) == v < 0

StartsWithHash(s) == Len(s) >= 1 /\ s[1] = "#"

\* The try/except around the colour parsing: a non-string (None) makes
\* bg_color.startswith raise AttributeError, which the except catches.
ParseBgColor(bg_color) ==
    IF bg_color.type # "str" THEN <<0, 0, 0>>
    ELSE IF ~StartsWithHash(bg_color.str) THEN <<0, 0, 0>>
    ELSE LET r == Int16(Slice(bg_color.str, 1, 3))
             g == Int16(Slice(bg_color.str, 3, 5))
             b == Int16(Slice(bg_color.str, 5, 7))
         IN  IF Int16Fails(r) \/ Int16Fails(g) \/ Int16Fails(b)
             THEN <<0, 0, 0>>
             ELSE <<r, g, b>>

(***************************************************************************)
(* Layout geometry (lines 214-229).                                        *)
(***************************************************************************)
DefaultColumns == 3

\* "if not isinstance(columns, int) or columns < 1: columns = 3"
NormalizeColumns(columns) ==
    IF columns.type # "int" THEN DefaultColumns
    ELSE IF columns.int < 1 THEN DefaultColumns ELSE columns.int

\* Ceiling division (num_images + columns - 1) // columns
Rows(num_images, columns) == (num_images + columns - 1) \div columns

AvailableWidthNoPadding(target_width, columns, padding) == target_width \div columns

AvailableWidth(target_width, columns, padding) ==
    (target_width - (columns + 1) * padding) \div columns

AvailableHeight(target_height, max_rows, padding) ==
    (target_height - (max_rows + 1) * padding) \div max_rows

(***************************************************************************)
(* Aspect-preserving fit of one image (lines 235-249).                     *)
(***************************************************************************)
FitClamped(img, available_width, available_height) ==
    LET w == img[1]
        h == img[2]
    IN  IF w > h
        THEN <<Max2(1, available_width), Max2(1, IntDiv(available_width * h, w))>>
        ELSE <<Max2(1, IntDiv(available_height * w, h)), Max2(1, available_height)>>

Fit(img, available_width, available_height) ==
    LET w == img[1]
        h == img[2]
    IN  IF w > h
        THEN LET new_height == IntDiv(available_width * h, w)
             IN  IF new_height > available_height
                 THEN <<IntDiv(available_height * w, h), available_height>>
                 ELSE <<available_width, new_height>>
        ELSE LET new_width == IntDiv(available_height * w, h)
             IN  IF new_width > available_width
                 THEN <<available_width, IntDiv(available_width * h, w)>>
                 ELSE <<new_width, available_height>>

\* Image.resize raises ValueError for a requested side < 1 (line 251).
ResizeRejects(size) == size[1] < 1 \/ size[2] < 1

\* The resize loop (lines 233-252): the sizes of the images resized before
\* the first rejected one, and whether the loop ran to its end.
ResizeAll(images, available_width, available_height) ==
    LET fits == [i \in 1..Len(images) |-> Fit(images[i], available_width, available_height)]
        bad == {i \in 1..Len(images) : ResizeRejects(fits[i])}
    IN  IF bad = {}
        THEN [ok |-> TRUE, resized |-> fits]
        ELSE [ok |-> FALSE, resized |-> SubSeq(fits, 1, Min(bad) - 1)]

(***************************************************************************)
(* Placement in the grid buffer (lines 268-289).                           *)
(***************************************************************************)
LastRowItems(num_images, columns) ==
    IF num_images % columns = 0 THEN columns ELSE num_images % columns

PlaceXNoCentering(idx, num_images, columns, rows, base_width, padding) ==
    (idx % columns) * (base_width + padding) + padding

\* idx is the 0-based index of enumerate().
PlaceX(idx, num_images, columns, rows, base_width, padding) ==
    LET row == idx \div columns
        col == idx % columns
        last_row_items == LastRowItems(num_images, columns)
    IN  IF row = rows - 1 /\ last_row_items < columns
        THEN col * (base_width + padding) + padding
             + ((columns - last_row_items) * (base_width + padding)) \div 2
        ELSE col * (base_width + padding) + padding

PlaceY(idx, columns, base_height, padding) ==
    (idx \div columns) * (base_height + padding) + padding

\* The rectangle each resized image is pasted at: its own size, at a
\* position computed from the first resized image's size.
Rects(resized, columns, rows, padding) ==
    [i \in 1..Len(resized) |->
        [x |-> PlaceX(i - 1, Len(resized), columns, rows, resized[1][1], padding),
         y |-> PlaceY(i - 1, columns, resized[1][2], padding),
         w |-> resized[i][1],
         h |-> resized[i][2]]]

(***************************************************************************)
(* create_storyboard_grid (lines 195-296).                                 *)
(***************************************************************************)
BlankCanvas(target_size) ==
    [kind |-> "image", width |-> target_size[1], height |-> target_size[2],
     bg |-> <<0, 0, 0>>, n_resized |-> 0, n_placed |-> 0]

\* "if not images: raise ValueError('No images provided')"
EmptyImagesOutcome(target_size) ==
    [kind |-> "ValueError", message |-> "No images provided",
     n_resized |-> 0, n_placed |-> 0]

GridSizedCanvas(target_size, grid_width, grid_height) == <<grid_width, grid_height>>

\* Size of the canvas that is returned: Image.new('RGB', target_size, ...)
\* (line 255); the later paste does not change it.
FinalCanvasSize(target_size, grid_width, grid_height) == target_size

CreateStoryboardGrid(images, bg_color, columns_in, padding, target_size) ==
    IF Len(images) = 0 THEN EmptyImagesOutcome(target_size)
    ELSE
    LET bg_color_tuple == ParseBgColor(bg_color)
        columns == NormalizeColumns(columns_in)
        num_images == Len(images)
        rows == Rows(num_images, columns)
        target_width == target_size[1]
        target_height == target_size[2]
        available_width == AvailableWidth(target_width, columns, padding)
        available_height == AvailableHeight(target_height, rows, padding)
        rs == ResizeAll(images, available_width, available_height)
    IN  IF ~rs.ok
        THEN [kind |-> "ValueError", message |-> "height and width must be > 0",
              bg |-> bg_color_tuple, columns |-> columns, rows |-> rows,
              available_width |-> available_width,
              available_height |-> available_height,
              n_resized |-> Len(rs.resized), n_placed |-> 0]
        ELSE
        LET resized == rs.resized
            base_width == resized[1][1]
            base_height == resized[1][2]
            grid_width == columns * base_width + (columns + 1) * padding
            grid_height == rows * base_height + (rows + 1) * padding
            final == FinalCanvasSize(target_size, grid_width, grid_height)
        IN  IF grid_width < 0 \/ grid_height < 0
            THEN \* Image.new rejects a negative size (line 266)
                 [kind |-> "ValueError", message |-> "Width and height must be >= 0",
                  bg |-> bg_color_tuple, columns |-> columns, rows |-> rows,
                  available_width |-> available_width,
                  available_height |-> available_height,
                  n_resized |-> Len(resized), n_placed |-> 0]
            ELSE [kind |-> "image",
                  width |-> final[1], height |-> final[2],
                  bg |-> bg_color_tuple, columns |-> columns, rows |-> rows,
                  available_width |-> available_width,
                  available_height |-> available_height,
                  resized |-> resized,
                  base_width |-> base_width, base_height |-> base_height,
                  grid_width |-> grid_width, grid_height |-> grid_height,
                  rects |-> Rects(resized, columns, rows, padding),
                  paste_x |-> Max2(0, (target_width - grid_width) \div 2),
                  paste_y |-> Max2(0, (target_height - grid_height) \div 2),
                  n_resized |-> Len(resized), n_placed |-> Len(resized)]

(***************************************************************************)
(* _parse_output_size and its fallback in process (lines 347-358, 160).    *)
(***************************************************************************)
\* size_map.get(output_size): the mapped size, or <<>> for Python's None.
ParseOutputSize(output_size) ==
    IF output_size.type # "str" THEN <<>>
    ELSE CASE output_size.text = "4k (3840x2160)" -> <<3840, 2160>>
           [] output_size.text = "1920x1080" -> <<1920, 1080>>
           [] output_size.text = "1440p (2560x1440)" -> <<2560, 1440>>
           [] output_size.text = "720p (1280x720)" -> <<1280, 720>>
           [] OTHER -> <<>>

TargetSizeFallback720(output_size) ==
    IF ParseOutputSize(output_size) = <<>>
    THEN <<1280, 720>> ELSE ParseOutputSize(output_size)

\* "self._parse_output_size(output_image_size) or (1920, 1080)"
TargetSize(output_size) ==
    IF ParseOutputSize(output_size) = <<>>
    THEN <<1920, 1080>> ELSE ParseOutputSize(output_size)

(***************************************************************************)
(* The node: parameters and their declared defaults (lines 17-118).        *)
(***************************************************************************)
InputNames == {"images", "background_color", "columns", "padding", "output_image_size"}
ParameterNames == InputNames \cup {"status_message"}
OutputNames == {"storyboard_output"}

Black == PyStr(<<"#", "0", "0", "0", "0", "0", "0">>)

DefaultValue(name) ==
    CASE name = "background_color" -> Black
      [] name = "columns" -> PyInt(3)
      [] name = "padding" -> PyInt(10)
      [] name = "output_image_size" -> PyText("1920x1080")
      [] OTHER -> PyNone

\* get_parameter_value: the value set, else the declared default.
GetParameterValue(name) ==
    IF parameter_values[name] = NoValue THEN DefaultValue(name)
    ELSE parameter_values[name]

StatusSuccess == PyText("Storyboard generated successfully")
StatusNoImages == PyText("No images provided or invalid input")
StatusUrlUnsupported == PyText("URL-based images not yet supported")
StatusUnsupported == PyText("Unsupported image format")
StatusError == PyText("Error generating storyboard")

(***************************************************************************)
(* mark_for_processing (lines 298-306).                                    *)
(***************************************************************************)
OutputsKept(outs) == outs

\* "for param in self.parameters: if OUTPUT in allowed_modes: ... = None"
OutputsCleared(outs) == [n \in DOMAIN outs |-> PyNone]

MarkForProcessing ==
    /\ state' = "UNRESOLVED"
    /\ parameter_output_values' = OutputsCleared(parameter_output_values)

(***************************************************************************)
(* Values the host hands to the node's inputs.                             *)
(***************************************************************************)
Item(type, size) == [type |-> type, size |-> size]
DictWithUrl == [type |-> "dict", url |-> TRUE]
Unsupported == [type |-> "other"]

ImagesValues ==
    { PyText("image.png"), PyList(<<>>),
      PyList(<<Item("ImageArtifact", <<1, 2>>), Item("bytes", <<2, 1>>),
               Item("bytes", <<2, 1>>)>>),
      PyList(<<Item("ImageUrlArtifact", <<1, 1>>), Item("ImageArtifact", <<1, 1>>)>>),
      PyList(<<Item("bytes", <<1, 1>>), DictWithUrl>>),
      PyList(<<Unsupported>>) }

ValuesOf(name) ==
    CASE name = "images" -> ImagesValues
      [] name = "background_color" ->
            {PyStr(<<"b", "a", "d">>)}
      [] name = "columns" -> {PyInt(2)}
      [] name = "padding" -> {PyInt(1000)}
      [] name = "output_image_size" ->
            {PyText("4k (3840x2160)"), PyText("1440p (2560x1440)"),
             PyText("1080p (1920x1080)"), PyText("1920x1080"),
             PyText("720p (1280x720)"), PyText("8k")}
      [] name = "status_message" -> {PyText("note")}

Call(op, name, outcome) == [op |-> op, name |-> name, outcome |-> outcome]

(***************************************************************************)
(* Callbacks (lines 308-335).                                              *)
(***************************************************************************)
\* The host stores the value, then calls after_value_set(parameter, value).
AfterValueSet(name, value) ==
    /\ parameter_values' = [parameter_values EXCEPT ![name] = value]
    /\ IF name \in InputNames
       THEN MarkForProcessing
       ELSE UNCHANGED <<state, parameter_output_values>>
    /\ last_call' = Call("after_value_set", name, "returned")
    /\ args' = NoArgs
    /\ storyboard' = NoCall

\* Only the five inputs allow ParameterMode.INPUT, so only they are targets.
AfterIncomingConnection(name) ==
    /\ name \in InputNames
    /\ MarkForProcessing
    /\ last_call' = Call("after_incoming_connection", name, "returned")
    /\ args' = NoArgs
    /\ storyboard' = NoCall
    /\ UNCHANGED parameter_values

AfterIncomingConnectionRemoved(name) ==
    /\ name \in InputNames
    /\ MarkForProcessing
    /\ parameter_values' = [parameter_values EXCEPT ![name] = NoValue]
    /\ last_call' = Call("after_incoming_connection_removed", name, "returned")
    /\ args' = NoArgs
    /\ storyboard' = NoCall

(***************************************************************************)
(* process (lines 120-193).                                                *)
(***************************************************************************)
\* Index of the first item at which the decoding loop (lines 135-157) stops:
\* an item it returns on, or one whose fetch/decoding raises; 0 if none.
FirstStop(items, io_ok) ==
    LET stops == {i \in 1..Len(items) :
                    \/ items[i].type \in {"dict", "other"}
                    \/ items[i].type = "ImageUrlArtifact" /\ ~io_ok}
    IN  IF stops = {} THEN 0 ELSE Min(stops)

ProcessEnds(status, outcome) ==
    /\ parameter_values' = [parameter_values EXCEPT !["status_message"] = status]
    /\ last_call' = Call("process", "", outcome)

\* io_ok: requests.get succeeds; save_ok: save_static_file succeeds.
Process(io_ok, save_ok) ==
    LET images_list == GetParameterValue("images")
    IN  IF images_list.type # "list" \/ images_list = PyList(<<>>)
        THEN /\ ProcessEnds(StatusNoImages, "returned_early")
             /\ args' = NoArgs
             /\ storyboard' = NoCall
             /\ UNCHANGED <<parameter_output_values, state>>
        ELSE
        LET items == images_list.list
            stop == FirstStop(items, io_ok)
        IN  IF stop # 0
            THEN /\ CASE items[stop].type = "dict" ->
                           ProcessEnds(StatusUrlUnsupported, "returned_early")
                      [] items[stop].type = "other" ->
                           ProcessEnds(StatusUnsupported, "returned_early")
                      [] OTHER -> ProcessEnds(StatusError, "raised")
                 /\ args' = NoArgs
                 /\ storyboard' = NoCall
                 /\ UNCHANGED <<parameter_output_values, state>>
            ELSE
            LET call == [images |-> [i \in 1..Len(items) |-> items[i].size],
                         bg_color |-> GetParameterValue("background_color"),
                         columns |-> GetParameterValue("columns"),
                         padding |-> GetParameterValue("padding").int,
                         target_size |-> TargetSize(GetParameterValue("output_image_size"))]
                result == CreateStoryboardGrid(call.images, call.bg_color, call.columns,
                                               call.padding, call.target_size)
            IN  /\ args' = call
                /\ storyboard' = result
                /\ state' = state
                /\ IF result.kind = "image" /\ save_ok
                   THEN /\ parameter_output_values' =
                              [parameter_output_values EXCEPT !["storyboard_output"] =
                                  [type |-> "ImageUrlArtifact"]]
                        /\ ProcessEnds(StatusSuccess, "returned")
                   ELSE /\ ProcessEnds(StatusError, "raised")
                        /\ UNCHANGED parameter_output_values

\* The host marks the node resolved once process() has returned normally.
HostResolve ==
    /\ last_call.op = "process"
    /\ last_call.outcome # "raised"
    /\ state # "RESOLVED"
    /\ state' = "RESOLVED"
    /\ UNCHANGED <<parameter_values, parameter_output_values, last_call, args, storyboard>>

(***************************************************************************)
(* Specification of the node.                                              *)
(***************************************************************************)
Init ==
    /\ parameter_values = [n \in ParameterNames |-> NoValue]
    /\ parameter_output_values = [n \in OutputNames |-> PyNone]
    /\ state = "UNRESOLVED"
    /\ last_call = Call("__init__", "", "returned")
    /\ args = NoArgs
    /\ storyboard = NoCall

Next ==
    \/ \E name \in ParameterNames : \E value \in ValuesOf(name) : AfterValueSet(name, value)
    \/ \E name \in InputNames : AfterIncomingConnection(name)
    \/ \E name \in InputNames : AfterIncomingConnectionRemoved(name)
    \/ \E io_ok \in BOOLEAN, save_ok \in BOOLEAN : Process(io_ok, save_ok)
    \/ HostResolve

Spec == Init /\ [][Next]_vars

(***************************************************************************)
(* Specifications of create_storyboard_grid as a function of its inputs.   *)
(***************************************************************************)
ImageSizes == (1..MaxSide) \X (1..MaxSide)
ColumnsValues == {PyNone, PyInt(0), PyInt(1), PyInt(2), PyInt(3)}
PaddingValues == {-1, 0, 2, 10}
TargetSizes == {<<1280, 720>>, <<340, 120>>, <<8, 8>>}

NodeConstructed ==
    /\ parameter_values = [n \in ParameterNames |-> NoValue]
    /\ parameter_output_values = [n \in OutputNames |-> PyNone]
    /\ state = "UNRESOLVED"
    /\ last_call = Call("__init__", "", "returned")
    /\ storyboard = NoCall

InitGrid ==
    /\ NodeConstructed
    /\ \E images \in SeqsUpTo(ImageSizes, MaxImages) :
       \E columns \in ColumnsValues, padding \in PaddingValues, target_size \in TargetSizes :
          args = [images |-> images, bg_color |-> Black, columns |-> columns,
                  padding |-> padding, target_size |-> target_size]

InitColor ==
    /\ NodeConstructed
    /\ \E bg_color \in {PyNone} \cup {PyStr(s) : s \in SeqsUpTo(Chars, MaxColorLen)} :
          args = [images |-> <<<<1, 1>>>>, bg_color |-> bg_color, columns |-> PyInt(3),
                  padding |-> 10, target_size |-> <<340, 120>>]

\* One direct call of create_storyboard_grid with the chosen arguments.
CallCreateStoryboardGrid ==
    /\ storyboard = NoCall
    /\ storyboard' = CreateStoryboardGrid(args.images, args.bg_color, args.columns,
                                          args.padding, args.target_size)
    /\ last_call' = Call("create_storyboard_grid", "", 
                         IF storyboard'.kind = "image" THEN "returned" ELSE "raised")
    /\ UNCHANGED <<parameter_values, parameter_output_values, state, args>>

NextCall == CallCreateStoryboardGrid

SpecGrid == InitGrid /\ [][NextCall]_vars

SpecColor == InitColor /\ [][NextCall]_vars

(***************************************************************************)
(* Properties.                                                             *)
(***************************************************************************)
Returned == storyboard.kind = "image"
Called == storyboard.kind # "NoCall"

\* The geometry of a call, restated from the arguments alone.
ColumnsUsed ==
    IF args.columns.type = "int" /\ args.columns.int >= 1 THEN args.columns.int ELSE 3
RowsUsed == (Len(args.images) + ColumnsUsed - 1) \div ColumnsUsed
CellWidthLimit == (args.target_size[1] - (ColumnsUsed + 1) * args.padding) \div ColumnsUsed
CellHeightLimit == (args.target_size[2] - (RowsUsed + 1) * args.padding) \div RowsUsed

\* C1: whenever create_storyboard_grid returns an image, its width and
\* height are exactly target_size, whatever the images, columns and padding.
C1_CanvasSizeIsTargetSize ==
    Returned => /\ storyboard.width = args.target_size[1]
                /\ storyboard.height = args.target_size[2]

C1_Witness ==
    /\ Returned
    /\ Len(args.images) >= 2
    /\ args.images[1] # args.images[2]
    /\ storyboard.grid_width # storyboard.width
    /\ storyboard.grid_height # storyboard.height

\* C2: a call with an empty image list raises ValueError("No images
\* provided") and returns no canvas, whatever the other arguments are.
C2_EmptyListRaises ==
    (Called /\ Len(args.images) = 0) =>
        /\ storyboard.kind = "ValueError"
        /\ storyboard.message = "No images provided"

C2_Witness ==
    /\ Called
    /\ Len(args.images) = 0
    /\ args.target_size = <<1280, 720>>
    /\ storyboard.kind = "ValueError"

\* A well-formed colour string: '#' followed by exactly six hex digits.
WellFormedHex(c) ==
    /\ c.type = "str"
    /\ Len(c.str) = 7
    /\ c.str[1] = "#"
    /\ \A i \in 2..7 : c.str[i] \in HexDigits

HexPair(c, i) == 16 * HexVal(c.str[i]) + HexVal(c.str[i + 1])

\* C3: the background is taken from the string only when it is a
\* well-formed 7-character #RRGGBB string; for every other string it is
\* black (0,0,0); parsing never raises.
C3_ColorOnlyFromWellFormedHex ==
    Called =>
        /\ storyboard.kind = "image"
        /\ IF WellFormedHex(args.bg_color)
           THEN storyboard.bg = <<HexPair(args.bg_color, 2), HexPair(args.bg_color, 4),
                                  HexPair(args.bg_color, 6)>>
           ELSE storyboard.bg = <<0, 0, 0>>

\* C4: a non-positive available cell width or height makes the call fail
\* before any image is resized or placed; no canvas is returned.
C4_DegenerateGeometryFails ==
    (Called /\ Len(args.images) > 0 /\ (CellWidthLimit <= 0 \/ CellHeightLimit <= 0)) =>
        /\ storyboard.kind = "ValueError"
        /\ storyboard.n_resized = 0
        /\ storyboard.n_placed = 0

C4_Witness ==
    /\ Called
    /\ Len(args.images) >= 2
    /\ CellWidthLimit > 0
    /\ CellHeightLimit <= 0
    /\ storyboard.kind = "ValueError"

\* C5: process resolves the size selector to (3840,2160), (2560,1440),
\* (1920,1080) or (1280,720) as the table says, "1080p (1920x1080)",
\* "1920x1080" and every unknown selector giving (1920,1080).
C5_TargetSizeResolution ==
    (last_call.op = "process" /\ Called) =>
        LET sel == GetParameterValue("output_image_size").text
        IN  /\ args.target_size =
                 CASE sel = "4k (3840x2160)" -> <<3840, 2160>>
                   [] sel = "1440p (2560x1440)" -> <<2560, 1440>>
                   [] sel = "1080p (1920x1080)" -> <<1920, 1080>>
                   [] sel = "1920x1080" -> <<1920, 1080>>
                   [] sel = "720p (1280x720)" -> <<1280, 720>>
                   [] OTHER -> <<1920, 1080>>
            /\ args.target_size \in
                 {<<3840, 2160>>, <<2560, 1440>>, <<1920, 1080>>, <<1280, 720>>}

C5_Witness ==
    /\ last_call.op = "process"
    /\ Returned
    /\ GetParameterValue("output_image_size") = PyText("1080p (1920x1080)")
    /\ args.target_size = <<1920, 1080>>
    /\ storyboard.width = 1920

\* C6: images are placed row-major at x = col*(cell_width+padding)+padding,
\* y = row*(cell_height+padding)+padding, the cell being the first resized
\* image; exactly the images of a final row that is not full are shifted
\* right by (columns - last_row_count)*(cell_width+padding) div 2.
\* Example: columns 3, padding 10, cell 100x100, one image in the last
\* row: its x is 120.
C6_RowMajorPlacement ==
    Returned =>
        LET n == Len(args.images)
            c == ColumnsUsed
            p == args.padding
            cw == storyboard.resized[1][1]
            ch == storyboard.resized[1][2]
            partial == n % c
            shift == ((c - partial) * (cw + p)) \div 2
        IN  /\ Len(storyboard.rects) = n
            /\ \A i \in 1..n :
                  LET idx == i - 1
                      shifted == partial # 0 /\ idx >= n - partial
                  IN  /\ storyboard.rects[i].x =
                            (idx % c) * (cw + p) + p + (IF shifted THEN shift ELSE 0)
                      /\ storyboard.rects[i].y = (idx \div c) * (ch + p) + p
            /\ (c = 3 /\ p = 10 /\ cw = 100 /\ ch = 100 /\ partial = 1)
                  => storyboard.rects[n].x = 120

C6_Witness ==
    /\ Returned
    /\ ColumnsUsed = 3
    /\ args.padding = 10
    /\ storyboard.resized[1] = <<100, 100>>
    /\ Len(args.images) = 1
    /\ storyboard.rects[1].x = 120

StoryboardOutput == parameter_output_values["storyboard_output"]

\* C7: every callback on one of the five inputs leaves the node UNRESOLVED
\* with storyboard_output None; storyboard_output becomes set again only in
\* a process() call whose composition succeeded; a process() call that
\* returns early or raises leaves storyboard_output as it was.
C7_DirtyFlagProtocol ==
    [][ /\ ( /\ last_call'.op \in {"after_value_set", "after_incoming_connection",
                                   "after_incoming_connection_removed"}
             /\ last_call'.name \in InputNames )
           => ( /\ state' = "UNRESOLVED"
                /\ StoryboardOutput' = PyNone )
        /\ (StoryboardOutput = PyNone /\ StoryboardOutput' # PyNone)
           => ( /\ last_call' = Call("process", "", "returned")
                /\ storyboard'.kind = "image" )
        /\ (last_call'.op = "process" /\ last_call'.outcome # "returned")
           => StoryboardOutput' = StoryboardOutput
      ]_vars

C7_Witness ==
    /\ last_call = Call("process", "", "returned")
    /\ StoryboardOutput # PyNone
    /\ state = "UNRESOLVED"
    /\ parameter_values["columns"] # NoValue

RectsDisjoint(a, b) ==
    \/ a.x + a.w <= b.x
    \/ b.x + b.w <= a.x
    \/ a.y + a.h <= b.y
    \/ b.y + b.h <= a.y

RectInside(a, width, height) ==
    /\ a.x >= 0
    /\ a.y >= 0
    /\ a.x + a.w <= width
    /\ a.y + a.h <= height

\* C8: in a successful composition of n >= 2 images with padding >= 0, no
\* two pasted rectangles overlap and each lies inside the grid buffer.
C8_CellsDisjointInsideGrid ==
    (Returned /\ Len(args.images) >= 2 /\ args.padding >= 0) =>
        /\ \A i, j \in 1..Len(storyboard.rects) :
              i < j => RectsDisjoint(storyboard.rects[i], storyboard.rects[j])
        /\ \A i \in 1..Len(storyboard.rects) :
              RectInside(storyboard.rects[i], storyboard.grid_width, storyboard.grid_height)

\* C9: in a successful composition with padding >= 0 every fitted image is
\* at most (available_width, available_height), the grid buffer is no larger
\* than the target canvas, and the grid is pasted exactly centred, unclipped.
C9_GridFitsCanvas ==
    (Returned /\ args.padding >= 0) =>
        /\ \A i \in 1..Len(storyboard.resized) :
              /\ storyboard.resized[i][1] <= CellWidthLimit
              /\ storyboard.resized[i][2] <= CellHeightLimit
        /\ storyboard.grid_width <= args.target_size[1]
        /\ storyboard.grid_height <= args.target_size[2]
        /\ storyboard.paste_x = (args.target_size[1] - storyboard.grid_width) \div 2
        /\ storyboard.paste_y = (args.target_size[2] - storyboard.grid_height) \div 2
        /\ storyboard.paste_x + storyboard.grid_width <= storyboard.width
        /\ storyboard.paste_y + storyboard.grid_height <= storyboard.height

C9_Witness ==
    /\ Returned
    /\ args.padding > 0
    /\ Len(args.images) >= 2
    /\ storyboard.paste_x > 0
    /\ storyboard.paste_y > 0

\* C10: in every reachable state status_message is "Storyboard generated
\* successfully" if and only if storyboard_output holds an artifact.
C10_StatusMatchesOutput ==
    (parameter_values["status_message"] = StatusSuccess) <=> (StoryboardOutput # PyNone)

====
